---- MODULE Spec2Model ----
(***************************************************************************)
(* Model of the runtime-array crate: HeapArray (src/src/heap_array.rs) and *)
(* RingBuffer (src/src/ring_buffer.rs).                                    *)
(*                                                                         *)
(* Rust indices are 0-based; a backing array of length n is the sequence   *)
(* data with slot i stored at data[i + 1].                                 *)
(***************************************************************************)
EXTENDS Integers, Sequences, FiniteSets, TLC

\* ------------------------------------------------------------------ bounds
MaxC == 3          \* longest sequence handed to RingBuffer::from_slice
MaxOps == 3        \* longest run of RingBuffer calls after construction
MaxVal == 2        \* element values are 1..MaxVal
UsizeBits == 4     \* width of usize in the model (usize arithmetic is mod 2^UsizeBits)
MaxLen == 3        \* longest HeapArray constructed
MaxBatch == 2      \* longest sequence handed to RingBuffer::write_all
MaxAssign == 1     \* most assignments made through get_mut / IndexMut

Values == 1..MaxVal
USIZE == 2 ^ UsizeBits

\* result of an arithmetic step or an indexing step that panics
PANIC == -1

RECURSIVE SeqsUpTo(_)
SeqsUpTo(n) ==
    IF n = 0 THEN {<<>>}
    ELSE LET S == SeqsUpTo(n - 1)
         IN  S \cup {Append(s, v) : s \in {t \in S : Len(t) = n - 1}, v \in Values}

VARIABLES
    overflow_checks,   \* build profile: TRUE = usize arithmetic is overflow-checked (panics), FALSE = wraps
    slice,             \* the argument handed to RingBuffer::from_slice
    rbState,           \* "none" (not yet constructed), "live", "panicked", "draining" (inside read_all's loop)
    next_read,         \* RingBuffer.next_read
    last_write,        \* RingBuffer.last_write
    data,              \* RingBuffer.data (the HeapArray's slots)
    ret,               \* what the last call returned
    hist               \* the calls made since construction, oldest first

ringVars == <<overflow_checks, slice, rbState, next_read, last_write, data, ret, hist>>

VARIABLES
    zst,               \* size_of::<T>() == 0 for the element type T
    heap,              \* the allocator: heap[p] = [size, frees] for the p-th block alloc returned
    wildFrees,         \* dealloc calls on a pointer alloc never returned
    created,           \* number of element instances created so far (instance ids are 1..created)
    dropLog,           \* the element destructions so far, in order: [by, id, slot]
    ctor,              \* the constructor that was called: "none", "new", "from_slice", "default"
    ctorArg,           \* its arguments: [v, len] for new, [s] for from_slice
    arr,               \* the HeapArray: [ptr, len, slots], slots[i + 1] = [id, val]
    arrState,          \* "none", "live", "moved" (into an IntoIter), "dropped", "panicked", "ub"
    it,                \* the IntoIter's cursors: [start, end] (its buf is arr)
    itState,           \* "none", "live", "dropped"
    itRet,             \* what the last IntoIter::next returned: [op, some, item]
    yielded,           \* the items next() has handed to the caller, in order
    cl,                \* the HeapArray that arr.clone() returned: [ptr, len, slots]
    clState,           \* "none", "live", "dropped", "ub"
    accRet             \* what the last call returned, when it was an access to arr or cl

arrVars == <<zst, heap, wildFrees, created, dropLog, ctor, ctorArg, arr, arrState,
             it, itState, itRet, yielded, cl, clState, accRet>>

vars == <<ringVars, arrVars>>

NoRet == [op |-> "none", some |-> FALSE, val |-> 0, vals |-> <<>>]

\* ------------------------------------------------------- usize arithmetic
\* a + b on usize: panics when it overflows under overflow checks, wraps otherwise
UsizeAdd(a, b, checks) ==
    IF a = PANIC \/ b = PANIC THEN PANIC
    ELSE IF a + b >= USIZE THEN (IF checks THEN PANIC ELSE (a + b) % USIZE)
    ELSE a + b

\* a - b on usize: panics when it underflows under overflow checks, wraps otherwise
UsizeSub(a, b, checks) ==
    IF a = PANIC \/ b = PANIC THEN PANIC
    ELSE IF a - b < 0 THEN (IF checks THEN PANIC ELSE (a - b) % USIZE)
    ELSE a - b

\* a % n on usize: a zero divisor always panics
UsizeRem(a, n) ==
    IF a = PANIC \/ n = PANIC THEN PANIC
    ELSE IF n = 0 THEN PANIC
    ELSE a % n

\* (i + 1) % len, the cursor step used throughout RingBuffer
Advance(i, len, checks) == UsizeRem(UsizeAdd(i, 1, checks), len)

\* ------------------------------------------------------ HeapArray access
\* HeapArray::get: Some(slot) when index < len, None otherwise
get_short(a, idx) ==
    IF idx < Len(a) - 1 THEN [some |-> TRUE, val |-> a[idx + 1]]
    ELSE [some |-> FALSE, val |-> 0]

get(a, idx) ==
    IF idx < Len(a) THEN [some |-> TRUE, val |-> a[idx + 1]]
    ELSE [some |-> FALSE, val |-> 0]

\* Index for HeapArray: the slot, or a panic when get reports None
index(a, i) ==
    IF i = PANIC THEN PANIC
    ELSE IF get(a, i).some THEN get(a, i).val ELSE PANIC

\* HeapArray::get_mut: Some(slot) when index < len, None otherwise
get_mut(a, idx) ==
    IF idx < Len(a) THEN [some |-> TRUE, val |-> a[idx + 1]]
    ELSE [some |-> FALSE, val |-> 0]

\* IndexMut for HeapArray: does the access panic (get_mut reports None)
index_mut_panics(a, i) ==
    IF i = PANIC THEN TRUE ELSE ~get_mut(a, i).some

\* the assignment through the reference IndexMut returned
index_mut_set(a, i, value) == [a EXCEPT ![i + 1] = value]

\* --------------------------------------------------------- RingBuffer ops
\* RingBuffer::from_slice: the struct literal; HeapArray::from_slice copies the elements
RB_from_slice_zero(s, checks) ==
    [next_read |-> 0, last_write |-> 0, data |-> s]

RB_from_slice(s, checks) ==
    [next_read |-> 0, last_write |-> UsizeSub(Len(s), 1, checks), data |-> s]

\* RingBuffer::read on (nr, lw, d): panicked, or the returned option and the new next_read
RB_read_after_advance(nr, lw, d, checks) ==
    LET empty_at == Advance(lw, Len(d), checks)
    IN  IF empty_at = PANIC THEN [panicked |-> TRUE, some |-> FALSE, val |-> 0, next_read |-> nr]
        ELSE IF nr = empty_at THEN [panicked |-> FALSE, some |-> FALSE, val |-> 0, next_read |-> nr]
        ELSE LET nxt == Advance(nr, Len(d), checks)
                 value == index(d, nxt)
             IN  IF value = PANIC \/ nxt = PANIC
                 THEN [panicked |-> TRUE, some |-> FALSE, val |-> 0, next_read |-> nr]
                 ELSE [panicked |-> FALSE, some |-> TRUE, val |-> value, next_read |-> nxt]

RB_read(nr, lw, d, checks) ==
    LET empty_at == Advance(lw, Len(d), checks)
    IN  IF empty_at = PANIC THEN [panicked |-> TRUE, some |-> FALSE, val |-> 0, next_read |-> nr]
        ELSE IF nr = empty_at THEN [panicked |-> FALSE, some |-> FALSE, val |-> 0, next_read |-> nr]
        ELSE LET value == index(d, nr)
                 nxt == Advance(nr, Len(d), checks)
             IN  IF value = PANIC \/ nxt = PANIC
                 THEN [panicked |-> TRUE, some |-> FALSE, val |-> 0, next_read |-> nr]
                 ELSE [panicked |-> FALSE, some |-> TRUE, val |-> value, next_read |-> nxt]

\* RingBuffer::write on (nr, lw, d): panicked, or the new fields
RB_write_no_wrap(nr, lw, d, value, checks) ==
    LET next_last_write == Advance(lw, Len(d), checks)
    IN  IF index_mut_panics(d, next_last_write)
        THEN [panicked |-> TRUE, next_read |-> nr, last_write |-> lw, data |-> d]
        ELSE LET stored == index_mut_set(d, next_last_write, value)
             IN  IF nr = next_last_write
                 THEN [panicked |-> FALSE, next_read |-> nr + 1, last_write |-> lw, data |-> stored]
                 ELSE [panicked |-> FALSE, next_read |-> nr, last_write |-> lw, data |-> stored]

RB_write(nr, lw, d, value, checks) ==
    LET next_last_write == Advance(lw, Len(d), checks)
    IN  IF index_mut_panics(d, next_last_write)
        THEN [panicked |-> TRUE, next_read |-> nr, last_write |-> lw, data |-> d]
        ELSE LET stored == index_mut_set(d, next_last_write, value)
             IN  IF nr = next_last_write
                 THEN LET nxt == Advance(nr, Len(d), checks)
                      IN  IF nxt = PANIC
                          THEN [panicked |-> TRUE, next_read |-> nr, last_write |-> lw, data |-> stored]
                          ELSE [panicked |-> FALSE, next_read |-> nxt, last_write |-> lw, data |-> stored]
                 ELSE [panicked |-> FALSE, next_read |-> nr, last_write |-> lw, data |-> stored]

\* RingBuffer::read_all on (nr, lw, d): the while loop, result accumulated in acc
RECURSIVE RB_read_all(_, _, _, _, _)
RB_read_all(nr, lw, d, acc, checks) ==
    LET stop_at == Advance(lw, Len(d), checks)
    IN  IF stop_at = PANIC THEN [panicked |-> TRUE, vals |-> acc, next_read |-> nr]
        ELSE IF nr = stop_at THEN [panicked |-> FALSE, vals |-> acc, next_read |-> nr]
        ELSE LET value == index(d, nr)
                 nxt == Advance(nr, Len(d), checks)
             IN  IF value = PANIC \/ nxt = PANIC
                 THEN [panicked |-> TRUE, vals |-> acc, next_read |-> nr]
                 ELSE RB_read_all(nxt, lw, d, Append(acc, value), checks)

\* T::clone on a plain value
clone_value(v) == v

\* RingBuffer::to_vec: read_all, then a clone of every element read
RB_to_vec_keeps(nr, lw, d, checks) ==
    LET r == RB_read_all(nr, lw, d, <<>>, checks)
    IN  [panicked |-> r.panicked,
         vals |-> [i \in 1..Len(r.vals) |-> clone_value(r.vals[i])],
         next_read |-> nr]

RB_to_vec(nr, lw, d, checks) ==
    LET r == RB_read_all(nr, lw, d, <<>>, checks)
    IN  [panicked |-> r.panicked,
         vals |-> [i \in 1..Len(r.vals) |-> clone_value(r.vals[i])],
         next_read |-> r.next_read]

\* RingBuffer::write_all on (nr, lw, d): write applied to each value in order
RECURSIVE RB_write_all(_, _, _, _, _)
RB_write_all(nr, lw, d, values, checks) ==
    IF values = <<>>
    THEN [panicked |-> FALSE, next_read |-> nr, last_write |-> lw, data |-> d]
    ELSE LET w == RB_write(nr, lw, d, Head(values), checks)
         IN  IF w.panicked THEN w
             ELSE RB_write_all(w.next_read, w.last_write, w.data, Tail(values), checks)

\* ------------------------------------------------- HeapArray and the heap
\* NonNull::dangling(): a pointer that no allocation backs
DANGLING == 0

\* an element instance that was never created (a slot no constructor wrote)
NoItem == [id |-> 0, val |-> 1]

NoItRet == [op |-> "none", some |-> FALSE, item |-> NoItem]

NoArg == [v |-> 0, len |-> 0, s |-> <<>>]

NoAcc == [op |-> "none", target |-> "arr", idx |-> 0, some |-> FALSE, panicked |-> FALSE,
          item |-> NoItem, vals |-> <<>>]

\* the values of the element type: a zero-sized type has exactly one
ElemValues(z) == IF z THEN {1} ELSE Values

\* std::alloc::alloc on heap h: the heap with one more block, whose pointer is Len(h) + 1
alloc(h, size) == Append(h, [size |-> size, frees |-> 0])

\* std::alloc::dealloc(ptr): one more free of the block ptr names
dealloc(h, ptr) == IF ptr \in DOMAIN h THEN [h EXCEPT ![ptr].frees = @ + 1] ELSE h

\* dealloc(ptr) on a pointer alloc never returned
dealloc_wild(h, ptr) == IF ptr \in DOMAIN h THEN 0 ELSE 1

\* size in bytes of Layout::array::<T>(len), one byte per non-zero-sized element
LayoutSize(len, z) == IF z THEN 0 ELSE len

\* HeapArray::new(value, len), value being an instance the caller created:
\* the array, the heap, and the destructions (value goes out of scope on return).
\* Every slot receives value_ptr.read(), a bitwise copy: the same instance.
\* alloc returning null (alloc_ok = FALSE) is not checked: the writes go
\* through the null pointer, which is undefined behaviour (outcome "ub").
HeapArray_new_one_empty(value, len, z, alloc_ok, h) ==
    IF len <= 1
    THEN [outcome |-> "ok",
          arr |-> [ptr |-> DANGLING, len |-> 0, slots |-> <<>>],
          heap |-> h, cloned |-> 0,
          dropped |-> <<[by |-> "value", id |-> value.id, slot |-> 0]>>]
    ELSE IF ~alloc_ok
    THEN [outcome |-> "ub",
          arr |-> [ptr |-> DANGLING, len |-> 0, slots |-> <<>>],
          heap |-> h, cloned |-> 0, dropped |-> <<>>]
    ELSE [outcome |-> "ok",
          arr |-> [ptr |-> Len(h) + 1, len |-> len, slots |-> [i \in 1..len |-> value]],
          heap |-> alloc(h, LayoutSize(len, z)), cloned |-> 0,
          dropped |-> <<[by |-> "value", id |-> value.id, slot |-> 0]>>]

HeapArray_new(value, len, z, alloc_ok, h) ==
    IF len = 0
    THEN [outcome |-> "ok",
          arr |-> [ptr |-> DANGLING, len |-> 0, slots |-> <<>>],
          heap |-> h, cloned |-> 0,
          dropped |-> <<[by |-> "value", id |-> value.id, slot |-> 0]>>]
    ELSE IF ~alloc_ok
    THEN [outcome |-> "ub",
          arr |-> [ptr |-> DANGLING, len |-> 0, slots |-> <<>>],
          heap |-> h, cloned |-> 0, dropped |-> <<>>]
    ELSE [outcome |-> "ok",
          arr |-> [ptr |-> Len(h) + 1, len |-> len, slots |-> [i \in 1..len |-> value]],
          heap |-> alloc(h, LayoutSize(len, z)), cloned |-> 0,
          dropped |-> <<[by |-> "value", id |-> value.id, slot |-> 0]>>]

\* HeapArray::from_slice(s), s a sequence of values; clones get the instance
\* ids nextId + 1, nextId + 2, ...
HeapArray_from_slice_reversed(s, z, alloc_ok, h, nextId) ==
    LET len == Len(s)
    IN  IF len = 0
        THEN [outcome |-> "ok",
              arr |-> [ptr |-> DANGLING, len |-> 0, slots |-> <<>>],
              heap |-> h, cloned |-> 0, dropped |-> <<>>]
        ELSE IF z
        THEN [outcome |-> "ok",
              arr |-> [ptr |-> DANGLING, len |-> len, slots |-> [i \in 1..len |-> NoItem]],
              heap |-> h, cloned |-> 0, dropped |-> <<>>]
        ELSE IF ~alloc_ok
        THEN [outcome |-> "panicked",
              arr |-> [ptr |-> DANGLING, len |-> 0, slots |-> <<>>],
              heap |-> h, cloned |-> 0, dropped |-> <<>>]
        ELSE [outcome |-> "ok",
              arr |-> [ptr |-> Len(h) + 1, len |-> len,
                       slots |-> [i \in 1..len |-> [id |-> nextId + i, val |-> s[len + 1 - i]]]],
              heap |-> alloc(h, LayoutSize(len, z)), cloned |-> len, dropped |-> <<>>]

HeapArray_from_slice(s, z, alloc_ok, h, nextId) ==
    LET len == Len(s)
    IN  IF len = 0
        THEN [outcome |-> "ok",
              arr |-> [ptr |-> DANGLING, len |-> 0, slots |-> <<>>],
              heap |-> h, cloned |-> 0, dropped |-> <<>>]
        ELSE IF z
        THEN [outcome |-> "ok",
              arr |-> [ptr |-> DANGLING, len |-> len, slots |-> [i \in 1..len |-> NoItem]],
              heap |-> h, cloned |-> 0, dropped |-> <<>>]
        ELSE IF ~alloc_ok
        THEN [outcome |-> "panicked",
              arr |-> [ptr |-> DANGLING, len |-> 0, slots |-> <<>>],
              heap |-> h, cloned |-> 0, dropped |-> <<>>]
        ELSE [outcome |-> "ok",
              arr |-> [ptr |-> Len(h) + 1, len |-> len,
                       slots |-> [i \in 1..len |-> [id |-> nextId + i, val |-> s[i]]]],
              heap |-> alloc(h, LayoutSize(len, z)), cloned |-> len, dropped |-> <<>>]

\* Drop for HeapArray: the destructions in index order, the heap, the wild frees
HeapArray_drop(a, h) ==
    IF a.len # 0
    THEN [dropped |-> [i \in 1..a.len |-> [by |-> "array", id |-> a.slots[i].id, slot |-> i - 1]],
          heap |-> dealloc(h, a.ptr),
          wild |-> dealloc_wild(h, a.ptr)]
    ELSE [dropped |-> <<>>, heap |-> h, wild |-> 0]

\* IntoIterator for HeapArray: into_iter
HeapArray_into_iter(a) == [start |-> 0, end |-> a.len]

\* IntoIter::next on cursors i over buf
IntoIter_next(buf, i) ==
    IF i.start = i.end
    THEN [some |-> FALSE, item |-> NoItem, it |-> i]
    ELSE [some |-> TRUE, item |-> buf.slots[i.start + 1], it |-> [i EXCEPT !.start = @ + 1]]

\* Drop for IntoIter: for _ in self.by_ref() {} - every item next() still
\* returns is destructed. heap_drop: does dropping the fields afterwards run
\* Drop for HeapArray on buf (buf is a ManuallyDrop, so it does not)
IntoIter_drop_forgets(buf, i, acc) ==
    [dropped |-> acc, it |-> i, heap_drop |-> FALSE]

RECURSIVE IntoIter_drop(_, _, _)
IntoIter_drop(buf, i, acc) ==
    LET n == IntoIter_next(buf, i)
    IN  IF n.some
        THEN IntoIter_drop(buf, n.it, Append(acc, [by |-> "iter", id |-> n.item.id, slot |-> i.start]))
        ELSE [dropped |-> acc, it |-> n.it, heap_drop |-> FALSE]

\* Default for HeapArray
HeapArray_default == [ptr |-> DANGLING, len |-> 0, slots |-> <<>>]

\* HeapArray::len
HeapArray_len(a) == a.len

\* HeapArray::is_empty
HeapArray_is_empty(a) == a.len = 0

\* HeapArray::as_slice: from_raw_parts(ptr, len)
HeapArray_as_slice(a) == [i \in 1..a.len |-> a.slots[i]]

\* HeapArray::to_vec: as_slice().to_vec(), a clone of every element; the
\* clones belong to the caller's Vec and are not tracked as instances (id 0)
HeapArray_to_vec(a) ==
    [i \in 1..a.len |-> [id |-> 0, val |-> clone_value(HeapArray_as_slice(a)[i].val)]]

\* Clone for HeapArray: slot i of the new block receives
\* self.ptr.add(i).read().clone(); the temporary that read() returned (a bitwise
\* copy of the source element: the same instance) is destructed at the end of
\* the statement. alloc returning null is not checked (outcome "ub").
HeapArray_clone_shallow(a, z, alloc_ok, h, nextId) ==
    [outcome |-> "ok", arr |-> a, heap |-> h, cloned |-> 0, dropped |-> <<>>]

HeapArray_clone(a, z, alloc_ok, h, nextId) ==
    IF a.len = 0
    THEN [outcome |-> "ok",
          arr |-> [ptr |-> DANGLING, len |-> 0, slots |-> <<>>],
          heap |-> h, cloned |-> 0, dropped |-> <<>>]
    ELSE IF ~alloc_ok
    THEN [outcome |-> "ub",
          arr |-> [ptr |-> DANGLING, len |-> 0, slots |-> <<>>],
          heap |-> h, cloned |-> 0, dropped |-> <<>>]
    ELSE [outcome |-> "ok",
          arr |-> [ptr |-> Len(h) + 1, len |-> a.len,
                   slots |-> [i \in 1..a.len |->
                                 [id |-> nextId + i, val |-> clone_value(a.slots[i].val)]]],
          heap |-> alloc(h, LayoutSize(a.len, z)), cloned |-> a.len,
          dropped |-> [i \in 1..a.len |-> [by |-> "clone_tmp", id |-> a.slots[i].id, slot |-> i - 1]]]

\* Index for HeapArray: does the access panic (get reports None)
index_panics(a, i) == ~get(a, i).some

\* the store of item into slot i of the block at pointer p, as seen through
\* array a: a sees it when its storage is that block
store(a, p, i, item) ==
    IF a.ptr = p /\ i < a.len THEN [a EXCEPT !.slots[i + 1] = item] ELSE a

\* size_of::<T>() in the model: one address unit per non-zero-sized element
ElemSize(z) == IF z THEN 0 ELSE 1

\* HeapArray::iter: ptr and end as offsets from the start of the storage
HeapArray_iter(a, z) == [ptr |-> 0, end |-> a.len * ElemSize(z)]

\* Iter::next
Iter_next(i, z) ==
    IF i.ptr = i.end THEN [some |-> FALSE, old |-> 0, it |-> i]
    ELSE [some |-> TRUE, old |-> i.ptr, it |-> [i EXCEPT !.ptr = @ + ElemSize(z)]]

\* for x in &a: the references Iter yields, collected
RECURSIVE Iter_collect(_, _, _, _)
Iter_collect(a, i, z, acc) ==
    LET n == Iter_next(i, z)
    IN  IF n.some THEN Iter_collect(a, n.it, z, Append(acc, a.slots[n.old + 1]))
        ELSE acc

\* ------------------------------------------------------------------ Init
\* no HeapArray under observation
ArrIdle ==
    /\ heap = <<>>
    /\ wildFrees = 0
    /\ created = 0
    /\ dropLog = <<>>
    /\ ctor = "none"
    /\ arr = [ptr |-> DANGLING, len |-> 0, slots |-> <<>>]
    /\ arrState = "none"
    /\ it = [start |-> 0, end |-> 0]
    /\ itState = "none"
    /\ itRet = NoItRet
    /\ yielded = <<>>
    /\ ctorArg = NoArg
    /\ cl = [ptr |-> DANGLING, len |-> 0, slots |-> <<>>]
    /\ clState = "none"
    /\ accRet = NoAcc

\* no RingBuffer under observation
RingIdle ==
    /\ slice = <<>>
    /\ rbState = "none"
    /\ next_read = 0
    /\ last_write = 0
    /\ data = <<>>
    /\ ret = NoRet
    /\ hist = <<>>

InitRing ==
    /\ overflow_checks \in BOOLEAN
    /\ RingIdle
    /\ zst = FALSE
    /\ ArrIdle

InitArray ==
    /\ overflow_checks = TRUE
    /\ RingIdle
    /\ zst \in BOOLEAN
    /\ ArrIdle

\* --------------------------------------------------------------- actions
\* RingBuffer::from_slice(s)
FromSlice ==
    /\ rbState = "none"
    /\ \E s \in SeqsUpTo(MaxC) :
          LET rb == RB_from_slice(s, overflow_checks)
          IN  /\ slice' = s
              /\ IF rb.last_write = PANIC
                 THEN /\ rbState' = "panicked"
                      /\ UNCHANGED <<next_read, last_write, data>>
                 ELSE /\ rbState' = "live"
                      /\ next_read' = rb.next_read
                      /\ last_write' = rb.last_write
                      /\ data' = rb.data
    /\ UNCHANGED <<overflow_checks, ret, hist>>
    /\ UNCHANGED arrVars

\* RingBuffer::read()
Read ==
    /\ rbState = "live"
    /\ Len(hist) < MaxOps
    /\ LET r == RB_read(next_read, last_write, data, overflow_checks)
       IN  /\ rbState' = IF r.panicked THEN "panicked" ELSE "live"
           /\ next_read' = r.next_read
           /\ ret' = [op |-> "read", some |-> r.some, val |-> r.val, vals |-> <<>>]
    /\ hist' = Append(hist, [op |-> "read", v |-> 0])
    /\ UNCHANGED <<overflow_checks, slice, last_write, data>>
    /\ UNCHANGED arrVars

\* RingBuffer::write(value)
Write ==
    /\ rbState = "live"
    /\ Len(hist) < MaxOps
    /\ \E value \in Values :
          LET w == RB_write(next_read, last_write, data, value, overflow_checks)
          IN  /\ rbState' = IF w.panicked THEN "panicked" ELSE "live"
              /\ next_read' = w.next_read
              /\ last_write' = w.last_write
              /\ data' = w.data
              /\ hist' = Append(hist, [op |-> "write", v |-> value])
    /\ ret' = [op |-> "write", some |-> FALSE, val |-> 0, vals |-> <<>>]
    /\ UNCHANGED <<overflow_checks, slice>>
    /\ UNCHANGED arrVars

\* RingBuffer::read_all()
ReadAll ==
    /\ rbState = "live"
    /\ Len(hist) < MaxOps
    /\ LET r == RB_read_all(next_read, last_write, data, <<>>, overflow_checks)
       IN  /\ rbState' = IF r.panicked THEN "panicked" ELSE "live"
           /\ next_read' = r.next_read
           /\ ret' = [op |-> "read_all", some |-> FALSE, val |-> 0, vals |-> r.vals]
    /\ hist' = Append(hist, [op |-> "read_all", v |-> 0])
    /\ UNCHANGED <<overflow_checks, slice, last_write, data>>
    /\ UNCHANGED arrVars

\* RingBuffer::write_all(values); hist records the element writes it makes
WriteAll ==
    /\ rbState = "live"
    /\ \E values \in SeqsUpTo(MaxBatch) :
          /\ Len(hist) + Len(values) <= MaxOps
          /\ LET w == RB_write_all(next_read, last_write, data, values, overflow_checks)
             IN  /\ rbState' = IF w.panicked THEN "panicked" ELSE "live"
                 /\ next_read' = w.next_read
                 /\ last_write' = w.last_write
                 /\ data' = w.data
          /\ hist' = hist \o [i \in 1..Len(values) |-> [op |-> "write", v |-> values[i]]]
    /\ ret' = [op |-> "write_all", some |-> FALSE, val |-> 0, vals |-> <<>>]
    /\ UNCHANGED <<overflow_checks, slice>>
    /\ UNCHANGED arrVars

\* RingBuffer::to_vec()
ToVec ==
    /\ rbState = "live"
    /\ Len(hist) < MaxOps
    /\ LET r == RB_to_vec(next_read, last_write, data, overflow_checks)
       IN  /\ rbState' = IF r.panicked THEN "panicked" ELSE "live"
           /\ next_read' = r.next_read
           /\ ret' = [op |-> "to_vec", some |-> FALSE, val |-> 0, vals |-> r.vals]
    /\ hist' = Append(hist, [op |-> "to_vec", v |-> 0])
    /\ UNCHANGED <<overflow_checks, slice, last_write, data>>
    /\ UNCHANGED arrVars

NextRing ==
    \/ FromSlice
    \/ Read
    \/ Write
    \/ ReadAll
    \/ WriteAll
    \/ ToVec

SpecRing == InitRing /\ [][NextRing]_vars

\* ----------------------------------------- read_all, one loop iteration a step
\* RingBuffer::read_all is entered: result = Vec::new()
ReadAllEnter ==
    /\ rbState = "live"
    /\ Len(hist) < MaxOps
    /\ rbState' = "draining"
    /\ ret' = [op |-> "read_all", some |-> FALSE, val |-> 0, vals |-> <<>>]
    /\ hist' = Append(hist, [op |-> "read_all", v |-> 0])
    /\ UNCHANGED <<overflow_checks, slice, next_read, last_write, data>>
    /\ UNCHANGED arrVars

\* the while condition of read_all: PANIC, or next_read != (last_write + 1) % len
ReadAllCond(nr, lw, d, checks) ==
    LET stop_at == Advance(lw, Len(d), checks)
    IN  IF stop_at = PANIC THEN PANIC ELSE IF nr # stop_at THEN 1 ELSE 0

\* one iteration of the loop: push &data[next_read], advance next_read
ReadAllIter_stays ==
    /\ rbState = "draining"
    /\ ReadAllCond(next_read, last_write, data, overflow_checks) # 0
    /\ LET value == index(data, next_read)
           nxt == Advance(next_read, Len(data), overflow_checks)
       IN  IF ReadAllCond(next_read, last_write, data, overflow_checks) = PANIC
              \/ value = PANIC \/ nxt = PANIC
           THEN /\ rbState' = "panicked"
                /\ UNCHANGED <<next_read, ret>>
           ELSE /\ rbState' = "draining"
                /\ next_read' = next_read
                /\ ret' = [ret EXCEPT !.vals = Append(ret.vals, value)]
    /\ UNCHANGED <<overflow_checks, slice, last_write, data, hist>>
    /\ UNCHANGED arrVars

ReadAllIter ==
    /\ rbState = "draining"
    /\ ReadAllCond(next_read, last_write, data, overflow_checks) # 0
    /\ LET value == index(data, next_read)
           nxt == Advance(next_read, Len(data), overflow_checks)
       IN  IF ReadAllCond(next_read, last_write, data, overflow_checks) = PANIC
              \/ value = PANIC \/ nxt = PANIC
           THEN /\ rbState' = "panicked"
                /\ UNCHANGED <<next_read, ret>>
           ELSE /\ rbState' = "draining"
                /\ next_read' = nxt
                /\ ret' = [ret EXCEPT !.vals = Append(ret.vals, value)]
    /\ UNCHANGED <<overflow_checks, slice, last_write, data, hist>>
    /\ UNCHANGED arrVars

\* the while condition is false: read_all returns result
ReadAllExit ==
    /\ rbState = "draining"
    /\ ReadAllCond(next_read, last_write, data, overflow_checks) = 0
    /\ rbState' = "live"
    /\ UNCHANGED <<overflow_checks, slice, next_read, last_write, data, ret, hist>>
    /\ UNCHANGED arrVars

NextDrain ==
    \/ FromSlice
    \/ Read
    \/ Write
    \/ WriteAll
    \/ ReadAllEnter
    \/ ReadAllIter
    \/ ReadAllExit

\* the loop runs on the calling thread: an iteration or the return that is
\* possible is taken
SpecDrain ==
    InitRing /\ [][NextDrain]_vars /\ WF_vars(ReadAllIter) /\ WF_vars(ReadAllExit)

\* HeapArray::new(value, len) on a value the caller has just created
New ==
    /\ arrState = "none"
    /\ \E v \in ElemValues(zst), len \in 0..MaxLen, alloc_ok \in BOOLEAN :
          LET value == [id |-> created + 1, val |-> v]
              r == HeapArray_new(value, len, zst, alloc_ok, heap)
          IN  /\ arrState' = IF r.outcome = "ok" THEN "live" ELSE r.outcome
              /\ arr' = r.arr
              /\ heap' = r.heap
              /\ created' = created + 1 + r.cloned
              /\ dropLog' = dropLog \o r.dropped
              /\ ctorArg' = [v |-> v, len |-> len, s |-> <<>>]
    /\ ctor' = "new"
    /\ UNCHANGED <<zst, wildFrees, it, itState, itRet, yielded, cl, clState>>
    /\ accRet' = NoAcc
    /\ UNCHANGED ringVars

\* HeapArray::from_slice(s)
FromSliceArray ==
    /\ arrState = "none"
    /\ \E s \in {t \in SeqsUpTo(MaxLen) : \A i \in 1..Len(t) : t[i] \in ElemValues(zst)},
          alloc_ok \in BOOLEAN :
          LET r == HeapArray_from_slice(s, zst, alloc_ok, heap, created)
          IN  /\ arrState' = IF r.outcome = "ok" THEN "live" ELSE r.outcome
              /\ arr' = r.arr
              /\ heap' = r.heap
              /\ created' = created + r.cloned
              /\ dropLog' = dropLog \o r.dropped
              /\ ctorArg' = [v |-> 0, len |-> Len(s), s |-> s]
    /\ ctor' = "from_slice"
    /\ UNCHANGED <<zst, wildFrees, it, itState, itRet, yielded, cl, clState>>
    /\ accRet' = NoAcc
    /\ UNCHANGED ringVars

\* the HeapArray goes out of scope: Drop for HeapArray
DropArray ==
    /\ arrState = "live"
    /\ LET r == HeapArray_drop(arr, heap)
       IN  /\ dropLog' = dropLog \o r.dropped
           /\ heap' = r.heap
           /\ wildFrees' = wildFrees + r.wild
    /\ arrState' = "dropped"
    /\ UNCHANGED <<zst, created, ctor, ctorArg, arr, it, itState, itRet, yielded, cl, clState>>
    /\ accRet' = NoAcc
    /\ UNCHANGED ringVars

\* HeapArray::into_iter(self)
IntoIter ==
    /\ arrState = "live"
    /\ arrState' = "moved"
    /\ it' = HeapArray_into_iter(arr)
    /\ itState' = "live"
    /\ UNCHANGED <<zst, heap, wildFrees, created, dropLog, ctor, ctorArg, arr, itRet, yielded,
                   cl, clState>>
    /\ accRet' = NoAcc
    /\ UNCHANGED ringVars

\* IntoIter::next(); the caller keeps the item
IterNext ==
    /\ itState = "live"
    /\ itRet.op = "next" => itRet.some
    /\ LET n == IntoIter_next(arr, it)
       IN  /\ it' = n.it
           /\ itRet' = [op |-> "next", some |-> n.some, item |-> n.item]
           /\ yielded' = IF n.some THEN Append(yielded, n.item) ELSE yielded
    /\ UNCHANGED <<zst, heap, wildFrees, created, dropLog, ctor, ctorArg, arr, arrState, itState,
                   cl, clState>>
    /\ accRet' = NoAcc
    /\ UNCHANGED ringVars

\* the IntoIter goes out of scope: Drop for IntoIter, then its fields
IterDrop ==
    /\ itState = "live"
    /\ LET r == IntoIter_drop(arr, it, <<>>)
           d == IF r.heap_drop THEN HeapArray_drop(arr, heap)
                ELSE [dropped |-> <<>>, heap |-> heap, wild |-> 0]
       IN  /\ it' = r.it
           /\ dropLog' = dropLog \o r.dropped \o d.dropped
           /\ heap' = d.heap
           /\ wildFrees' = wildFrees + d.wild
    /\ itState' = "dropped"
    /\ UNCHANGED <<zst, created, ctor, ctorArg, arr, arrState, itRet, yielded, cl, clState>>
    /\ accRet' = NoAcc
    /\ UNCHANGED ringVars

\* HeapArray::default()
Default ==
    /\ arrState = "none"
    /\ arrState' = "live"
    /\ arr' = HeapArray_default
    /\ ctor' = "default"
    /\ UNCHANGED <<zst, heap, wildFrees, created, dropLog, ctorArg, it, itState, itRet, yielded,
                   cl, clState>>
    /\ accRet' = NoAcc
    /\ UNCHANGED ringVars

\* arr.clone()
Clone ==
    /\ arrState = "live"
    /\ clState = "none"
    /\ \E alloc_ok \in BOOLEAN :
          LET r == HeapArray_clone(arr, zst, alloc_ok, heap, created)
          IN  /\ clState' = IF r.outcome = "ok" THEN "live" ELSE r.outcome
              /\ cl' = r.arr
              /\ heap' = r.heap
              /\ created' = created + r.cloned
              /\ dropLog' = dropLog \o r.dropped
    /\ UNCHANGED <<zst, wildFrees, ctor, ctorArg, arr, arrState, it, itState, itRet, yielded>>
    /\ accRet' = NoAcc
    /\ UNCHANGED ringVars

\* the clone goes out of scope: Drop for HeapArray
DropClone ==
    /\ clState = "live"
    /\ arrState # "panicked"
    /\ LET r == HeapArray_drop(cl, heap)
       IN  /\ dropLog' = dropLog \o r.dropped
           /\ heap' = r.heap
           /\ wildFrees' = wildFrees + r.wild
    /\ clState' = "dropped"
    /\ UNCHANGED <<zst, created, ctor, ctorArg, arr, arrState, it, itState, itRet, yielded, cl>>
    /\ accRet' = NoAcc
    /\ UNCHANGED ringVars

\* the arrays a call can be made on
Targets == {t \in {"arr", "cl"} : IF t = "arr" THEN arrState = "live"
                                  ELSE clState = "live" /\ arrState # "panicked"}

Target(t) == IF t = "arr" THEN arr ELSE cl

Assigns == Cardinality({k \in 1..Len(dropLog) : dropLog[k].by \in {"assign_arr", "assign_cl"}})

\* a.get(i)
Get ==
    /\ \E t \in Targets, i \in 0..MaxLen :
          LET g == get(Target(t).slots, i)
          IN  accRet' = [op |-> "get", target |-> t, idx |-> i, some |-> g.some, panicked |-> FALSE,
                         item |-> IF g.some THEN g.val ELSE NoItem, vals |-> <<>>]
    /\ UNCHANGED <<zst, heap, wildFrees, created, dropLog, ctor, ctorArg, arr, arrState,
                   it, itState, itRet, yielded, cl, clState>>
    /\ UNCHANGED ringVars

\* a[i]
IndexGet ==
    /\ \E t \in Targets, i \in 0..MaxLen :
          LET a == Target(t)
              bad == index_panics(a.slots, i)
          IN  /\ accRet' = [op |-> "index", target |-> t, idx |-> i, some |-> ~bad, panicked |-> bad,
                            item |-> IF bad THEN NoItem ELSE get(a.slots, i).val, vals |-> <<>>]
              /\ arrState' = IF bad THEN "panicked" ELSE arrState
    /\ UNCHANGED <<zst, heap, wildFrees, created, dropLog, ctor, ctorArg, arr,
                   it, itState, itRet, yielded, cl, clState>>
    /\ UNCHANGED ringVars

\* if let Some(r) = a.get_mut(i) { *r = value }: the assignment destructs the
\* element the slot held and moves value (an instance the caller created) in
GetMutSet ==
    /\ Assigns < MaxAssign
    /\ \E t \in Targets, i \in 0..MaxLen, v \in ElemValues(zst) :
          LET a == Target(t)
              g == get_mut(a.slots, i)
              value == [id |-> created + 1, val |-> v]
          IN  /\ accRet' = [op |-> "get_mut", target |-> t, idx |-> i, some |-> g.some,
                            panicked |-> FALSE, item |-> IF g.some THEN value ELSE NoItem,
                            vals |-> <<>>]
              /\ IF g.some
                 THEN /\ arr' = store(arr, a.ptr, i, value)
                      /\ cl' = store(cl, a.ptr, i, value)
                      /\ created' = created + 1
                      /\ dropLog' = Append(dropLog, [by |-> "assign_" \o t, id |-> g.val.id, slot |-> i])
                 ELSE UNCHANGED <<arr, cl, created, dropLog>>
    /\ UNCHANGED <<zst, heap, wildFrees, ctor, ctorArg, arrState, it, itState, itRet, yielded, clState>>
    /\ UNCHANGED ringVars

\* a[i] = value
IndexSet ==
    /\ Assigns < MaxAssign
    /\ \E t \in Targets, i \in 0..MaxLen, v \in ElemValues(zst) :
          LET a == Target(t)
              bad == index_mut_panics(a.slots, i)
              value == [id |-> created + 1, val |-> v]
          IN  /\ accRet' = [op |-> "index_mut", target |-> t, idx |-> i, some |-> ~bad,
                            panicked |-> bad, item |-> IF bad THEN NoItem ELSE value,
                            vals |-> <<>>]
              /\ arrState' = IF bad THEN "panicked" ELSE arrState
              /\ IF ~bad
                 THEN /\ arr' = store(arr, a.ptr, i, value)
                      /\ cl' = store(cl, a.ptr, i, value)
                      /\ created' = created + 1
                      /\ dropLog' = Append(dropLog, [by |-> "assign_" \o t,
                                                     id |-> get_mut(a.slots, i).val.id, slot |-> i])
                 ELSE UNCHANGED <<arr, cl, created, dropLog>>
    /\ UNCHANGED <<zst, heap, wildFrees, ctor, ctorArg, it, itState, itRet, yielded, clState>>
    /\ UNCHANGED ringVars

\* for x in &a { .. }: iteration by reference to the end
IterRef ==
    /\ \E t \in Targets :
          accRet' = [op |-> "iter", target |-> t, idx |-> 0, some |-> FALSE, panicked |-> FALSE,
                     item |-> NoItem,
                     vals |-> Iter_collect(Target(t), HeapArray_iter(Target(t), zst), zst, <<>>)]
    /\ UNCHANGED <<zst, heap, wildFrees, created, dropLog, ctor, ctorArg, arr, arrState,
                   it, itState, itRet, yielded, cl, clState>>
    /\ UNCHANGED ringVars

\* a.as_slice()
AsSlice ==
    /\ \E t \in Targets :
          accRet' = [op |-> "as_slice", target |-> t, idx |-> 0, some |-> FALSE, panicked |-> FALSE,
                     item |-> NoItem, vals |-> HeapArray_as_slice(Target(t))]
    /\ UNCHANGED <<zst, heap, wildFrees, created, dropLog, ctor, ctorArg, arr, arrState,
                   it, itState, itRet, yielded, cl, clState>>
    /\ UNCHANGED ringVars

\* a.to_vec(); the caller keeps the Vec
ToVecArray ==
    /\ \E t \in Targets :
          accRet' = [op |-> "to_vec", target |-> t, idx |-> 0, some |-> FALSE, panicked |-> FALSE,
                     item |-> NoItem, vals |-> HeapArray_to_vec(Target(t))]
    /\ UNCHANGED <<zst, heap, wildFrees, created, dropLog, ctor, ctorArg, arr, arrState,
                   it, itState, itRet, yielded, cl, clState>>
    /\ UNCHANGED ringVars

\* construction, cloning, consuming iteration and destruction
NextArray ==
    \/ New
    \/ FromSliceArray
    \/ Default
    \/ Clone
    \/ DropArray
    \/ DropClone
    \/ IntoIter
    \/ IterNext
    \/ IterDrop

\* construction and every access to the elements of one array
NextAccess ==
    \/ New
    \/ FromSliceArray
    \/ Default
    \/ Get
    \/ IndexGet
    \/ GetMutSet
    \/ IndexSet
    \/ IterRef
    \/ AsSlice
    \/ ToVecArray

\* construction, cloning, and writes to the original and to the clone
NextClone ==
    \/ New
    \/ FromSliceArray
    \/ Clone
    \/ GetMutSet
    \/ IndexSet
    \/ AsSlice

SpecArray == InitArray /\ [][NextArray]_vars

SpecAccess == InitArray /\ [][NextAccess]_vars

SpecClone == InitArray /\ [][NextClone]_vars

\* ======================================================= RingBuffer claims
C == Len(slice)
LastCall == hist[Len(hist)]
Earlier == SubSeq(hist, 1, Len(hist) - 1)

\* a step that is a call of write which returned
WriteStep ==
    /\ rbState = "live"
    /\ rbState' = "live"
    /\ Len(hist') = Len(hist) + 1
    /\ hist'[Len(hist')].op = "write"

\* the number of consecutive read() calls that return present
RECURSIVE PendingCount(_, _, _, _)
PendingCount(nr, lw, d, checks) ==
    LET r == RB_read(nr, lw, d, checks)
    IN  IF r.some THEN 1 + PendingCount(r.next_read, lw, d, checks) ELSE 0

\* the reference queue of the claims: a FIFO of capacity cap that drops its
\* oldest element when written to while full
RefStep(q, call, cap) ==
    CASE call.op = "write" ->
             IF cap = 0 THEN <<>>
             ELSE IF Len(q) = cap THEN Append(Tail(q), call.v)
             ELSE Append(q, call.v)
      [] call.op = "read" -> IF q = <<>> THEN q ELSE Tail(q)
      [] OTHER -> <<>>

RECURSIVE RefFifo(_, _)
RefFifo(h, cap) ==
    IF h = <<>> THEN <<>>
    ELSE RefStep(RefFifo(SubSeq(h, 1, Len(h) - 1), cap), h[Len(h)], cap)

\* C1: on a buffer fresh from from_slice of a sequence of length >= 2, one
\* write(v) followed by read() returns present and yields v.
C1_WriteThenReadYieldsWritten ==
    (/\ rbState = "live"
     /\ C >= 2
     /\ Len(hist) = 2
     /\ hist[1].op = "write"
     /\ hist[2].op = "read")
    => (ret.some /\ ret.val = hist[1].v)

\* C2: read_all returns exactly what the reference FIFO of capacity C-1 with
\* overwrite-oldest holds after the same calls, oldest first, and leaves the
\* buffer empty (the next read returns absent).
C2_ReadAllMatchesReferenceFifo ==
    (/\ rbState = "live"
     /\ C >= 1
     /\ Len(hist) >= 1
     /\ LastCall.op = "read_all")
    => (/\ ret.vals = RefFifo(Earlier, C - 1)
        /\ ~RB_read(next_read, last_write, data, overflow_checks).some)

\* the last C + 1 calls are C writes and then read_all, made from an empty
\* buffer (fresh from construction, or just drained by read_all)
EvictionRun ==
    /\ rbState = "live"
    /\ C >= 2
    /\ Len(hist) >= C + 1
    /\ LastCall.op = "read_all"
    /\ \A i \in 1..C : hist[Len(hist) - i].op = "write"
    /\ \/ Len(hist) = C + 1
       \/ hist[Len(hist) - C - 1].op = "read_all"

\* C3: from an empty buffer, C-1 writes w1..w(C-1) and one more write w(C),
\* then read_all: the result is w2..w(C), in that order, without w1.
C3_EvictsOldestOnFull ==
    EvictionRun
    => ret.vals = [i \in 1..(C - 1) |-> hist[Len(hist) - C + i].v]

\* C4: write(value) advances the write cursor by one modulo C and the slot at
\* the new write cursor holds value.
C4_WriteAdvancesWriteCursor ==
    [][WriteStep =>
          /\ last_write' = (last_write + 1) % Len(data)
          /\ data'[last_write' + 1] = hist'[Len(hist')].v]_vars

\* C5: a write on a buffer with fewer than C-1 pending elements raises the
\* pending count by one; a write on a full buffer (C-1 pending) leaves it at
\* C-1.
C5_WritePendingCount ==
    [][WriteStep =>
          LET before == PendingCount(next_read, last_write, data, overflow_checks)
              after == PendingCount(next_read', last_write', data', overflow_checks)
          IN  after = IF before < Len(data) - 1 THEN before + 1 ELSE Len(data) - 1]_vars

\* C6: right after from_slice of a non-empty sequence the cursors are
\* next_read = 0 and last_write = C-1, the backing array holds the sequence,
\* and the buffer is empty: read() returns absent, read_all returns <<>>.
C6_EmptyAfterConstruction ==
    /\ (rbState = "panicked" /\ hist = <<>>) => slice = <<>>
    /\ (rbState = "live" /\ C >= 1) =>
          /\ hist = <<>> =>
                /\ next_read = 0
                /\ last_write = C - 1
                /\ data = slice
                /\ ~RB_read(next_read, last_write, data, overflow_checks).some
                /\ RB_read_all(next_read, last_write, data, <<>>, overflow_checks).vals = <<>>
          /\ (Len(hist) = 1 /\ hist[1].op = "read") =>
                (~ret.some /\ data = slice /\ next_read = 0)
          /\ (Len(hist) = 1 /\ hist[1].op = "read_all") =>
                (ret.vals = <<>> /\ data = slice /\ next_read = 0)

C6_Witness ==
    /\ rbState = "live"
    /\ slice = <<1, 2, 1>>
    /\ Len(hist) = 1
    /\ hist[1].op = "read"
    /\ ~ret.some

\* C7: from_slice of an empty sequence never returns a RingBuffer: no live
\* RingBuffer has a zero-length backing array, whether usize subtraction is
\* overflow-checked or wraps.
C7_NoZeroLengthRing ==
    rbState = "live" => Len(data) >= 1

\* a step that is a call of read on a buffer built from a non-empty sequence
ReadStep ==
    /\ rbState = "live"
    /\ C >= 1
    /\ Len(hist') = Len(hist) + 1
    /\ hist'[Len(hist')].op = "read"

\* C17: read on an empty buffer (next_read = (last_write + 1) mod C) returns
\* absent and changes nothing; on a non-empty buffer it returns the element at
\* next_read, advances next_read by one modulo C and leaves last_write and
\* every slot unchanged.
C17_ReadFrame ==
    [][ReadStep =>
          /\ rbState' = "live"
          /\ last_write' = last_write
          /\ data' = data
          /\ IF next_read = (last_write + 1) % C
             THEN ~ret'.some /\ next_read' = next_read
             ELSE /\ ret'.some
                  /\ ret'.val = data[next_read + 1]
                  /\ next_read' = (next_read + 1) % C]_vars

C17_Witness ==
    /\ rbState = "live"
    /\ C = 3
    /\ Len(hist) >= 2
    /\ LastCall.op = "read"
    /\ ret.some
    /\ next_read = 0

\* C18: for a RingBuffer constructed from a sequence of length C >= 1, in
\* every state reached by read, write, write_all, read_all and to_vec no call
\* has panicked (no out-of-bounds index, no modulo by zero), both cursors lie
\* in [0, C) and the backing array still has length C.
C18_CursorsInBounds ==
    (C >= 1 /\ rbState # "none") =>
       /\ rbState = "live"
       /\ next_read \in 0..(C - 1)
       /\ last_write \in 0..(C - 1)
       /\ Len(data) = C

C18_Witness ==
    /\ rbState = "live"
    /\ C = 3
    /\ ret.op = "write_all"
    /\ Len(hist) >= 3
    /\ next_read = 2

\* a step that is a call of to_vec on a buffer built from a non-empty sequence
ToVecStep ==
    /\ rbState = "live"
    /\ C >= 1
    /\ Len(hist') = Len(hist) + 1
    /\ hist'[Len(hist')].op = "to_vec"

\* the number of slots from next_read up to last_write, cyclically
Unread == (last_write + 1 - next_read) % C

\* C20: to_vec returns the unread elements (the slots from next_read up to
\* last_write, the ones read_all would return) in order, leaves the buffer
\* empty (next_read = (last_write + 1) mod C, so a second to_vec returns
\* <<>>), and changes neither last_write nor any slot.
C20_ToVecDrains ==
    [][ToVecStep =>
          /\ rbState' = "live"
          /\ ret'.vals = [j \in 1..Unread |-> data[((next_read + j - 1) % C) + 1]]
          /\ ret'.vals = RB_read_all(next_read, last_write, data, <<>>, overflow_checks).vals
          /\ next_read' = (last_write' + 1) % C
          /\ RB_to_vec(next_read', last_write', data', overflow_checks).vals = <<>>
          /\ last_write' = last_write
          /\ data' = data]_vars

C20_Witness ==
    /\ rbState = "live"
    /\ C = 3
    /\ Len(hist) >= 2
    /\ LastCall.op = "to_vec"
    /\ Len(ret.vals) = 2
    /\ next_read = 0

\* ======================================================== HeapArray claims
\* how often instance id has been destructed
DropCount(id) == Cardinality({k \in 1..Len(dropLog) : dropLog[k].id = id})

\* the destructions performed by Drop for IntoIter, in order
IterDrops == SelectSeq(dropLog, LAMBDA e : e.by = "iter")

\* C8: once the consuming iterator of an array of length >= 1 has been
\* dropped (exhausted or not), the allocation made at construction has been
\* freed exactly once (stated for element types of non-zero size, whose
\* arrays own a real allocation).
C8_IterFreesAllocationOnce ==
    (itState = "dropped" /\ ~zst /\ arr.len >= 1 /\ arr.ptr \in DOMAIN heap)
    => heap[arr.ptr].frees = 1

\* C9: consuming iteration yields the slots in index order 0..N-1 and only
\* then absent; dropping the iterator after k elements destructs each of the
\* slots k..N-1 exactly once, in order, and none of the k slots already
\* yielded.
C9_ConsumingIteration ==
    itState \in {"live", "dropped"} =>
       LET k == Len(yielded)
           N == arr.len
       IN  /\ k <= N
           /\ \A i \in 1..k : yielded[i] = arr.slots[i]
           /\ (itRet.op = "next" /\ ~itRet.some) => k = N
           /\ (itRet.op = "next" /\ itRet.some) => (k >= 1 /\ itRet.item = arr.slots[k])
           /\ itState = "live" => (IterDrops = <<>> /\ it.start = k /\ it.end = N)
           /\ itState = "dropped" =>
                 IterDrops = [j \in 1..(N - k) |->
                                 [by |-> "iter", id |-> arr.slots[k + j].id, slot |-> k + j - 1]]

C9_Witness ==
    /\ itState = "dropped"
    /\ ctor = "from_slice"
    /\ ~zst
    /\ arr.len = 3
    /\ Len(yielded) = 1
    /\ Len(IterDrops) = 2

\* C10: after HeapArray::new(value, count) with count > 0 has returned and
\* the array has been dropped, every element instance that was created has
\* been destructed exactly once, and nothing else has been destructed
\* (stated for element types of non-zero size).
C10_NewDestructsEachInstanceOnce ==
    (ctor = "new" /\ ~zst /\ arrState = "dropped" /\ arr.len > 0)
    => /\ \A id \in 1..created : DropCount(id) = 1
       /\ Len(dropLog) = created

\* C11: when the allocator returns null, the allocating operation (new with
\* count > 0, from_slice of a non-empty slice, clone of a non-empty array)
\* panics before anything is written through the pointer: no operation ends
\* in the undefined behaviour of writing through, or wrapping, a null pointer.
C11_NullAllocIsFatal ==
    arrState # "ub" /\ clState # "ub"

\* a step that is a call of get, get_mut, Index or IndexMut
AccessStep ==
    /\ accRet' # accRet
    /\ accRet'.op \in {"get", "get_mut", "index", "index_mut"}

\* C12: for every index i and array of length n, get(i) and get_mut(i) return
\* the slot i when i < n and absent, without panicking, when i >= n; Index and
\* IndexMut return slot i when i < n and panic when i >= n; a call that
\* returns no slot reads and writes no slot, and a write changes slot i only.
C12_BoundsChecked ==
    [][AccessStep =>
          LET r == accRet'
              before == Target(r.target)
              after == IF r.target = "arr" THEN arr' ELSE cl'
              n == HeapArray_len(before)
          IN  /\ r.some <=> r.idx < n
              /\ r.op \in {"get", "get_mut"} => ~r.panicked
              /\ r.op \in {"index", "index_mut"} => (r.panicked <=> r.idx >= n)
              /\ (arrState' = "panicked") <=> r.panicked
              /\ after.len = n
              /\ Len(after.slots) = n
              /\ (r.some /\ r.op \in {"get", "index"}) =>
                    (r.item = before.slots[r.idx + 1] /\ after = before)
              /\ (r.some /\ r.op \in {"get_mut", "index_mut"}) =>
                    /\ after.slots[r.idx + 1] = r.item
                    /\ \A j \in 1..n : j # r.idx + 1 => after.slots[j] = before.slots[j]
              /\ ~r.some => (after = before /\ dropLog' = dropLog)]_vars

C12_Witness ==
    /\ arrState = "panicked"
    /\ accRet.op = "index_mut"
    /\ accRet.panicked
    /\ arr.len = 2
    /\ accRet.idx = 2

\* slot i of the array has been written by get_mut or an indexed write
Assigned(i) ==
    \E k \in 1..Len(dropLog) : dropLog[k].by = "assign_arr" /\ dropLog[k].slot = i

\* C13: new(v, count) yields an array with len() = count, is_empty() exactly
\* when count = 0 and every slot in [0, count) holding a value equal to v; the
\* length stays count under every later get, get_mut, indexed write and
\* iteration by reference (a slot holds v until it is written).
C13_NewFills ==
    (ctor = "new" /\ arrState \in {"live", "panicked"}) =>
        /\ HeapArray_len(arr) = ctorArg.len
        /\ HeapArray_is_empty(arr) <=> (ctorArg.len = 0)
        /\ Len(HeapArray_as_slice(arr)) = ctorArg.len
        /\ \A i \in 0..(ctorArg.len - 1) :
              /\ get(arr.slots, i).some
              /\ ~Assigned(i) => get(arr.slots, i).val.val = ctorArg.v
        /\ ~get(arr.slots, ctorArg.len).some

C13_Witness ==
    /\ ctor = "new"
    /\ arrState = "live"
    /\ ctorArg.len = 3
    /\ accRet.op = "index_mut"
    /\ accRet.some
    /\ HeapArray_len(arr) = 3

\* C14: from_slice(S) followed by as_slice() or to_vec() yields a sequence
\* equal to S: the same length and, at every index, the element of S (for
\* every slot that has not been written since), in the same order.
C14_FromSliceRoundTrip ==
    (ctor = "from_slice" /\ arrState = "live") =>
        /\ Len(HeapArray_as_slice(arr)) = Len(ctorArg.s)
        /\ accRet.op \in {"as_slice", "to_vec"} =>
              /\ Len(accRet.vals) = Len(ctorArg.s)
              /\ \A i \in 1..Len(ctorArg.s) :
                    ~Assigned(i - 1) => accRet.vals[i].val = ctorArg.s[i]

C14_Witness ==
    /\ ctor = "from_slice"
    /\ arrState = "live"
    /\ ~zst
    /\ ctorArg.s = <<1, 2, 2>>
    /\ accRet.op = "to_vec"
    /\ Assigns = 0
    /\ [i \in 1..3 |-> accRet.vals[i].val] = <<1, 2, 2>>

\* the slot values of an array, in index order
SlotVals(a) == [i \in 1..a.len |-> a.slots[i].val]

\* a step in which clone returns the new array
CloneStep == clState = "none" /\ clState' = "live"

\* a step in which get_mut or an indexed write stores into a slot
SlotWriteStep ==
    /\ accRet' # accRet
    /\ accRet'.op \in {"get_mut", "index_mut"}
    /\ accRet'.some

\* C15: clone yields a new array of the same length with element-wise equal
\* values in the same order, backed by its own allocation; afterwards a write
\* to a slot of the clone leaves every slot value of the original unchanged,
\* and a write to the original leaves the clone unchanged.
C15_CloneIndependent ==
    [][/\ CloneStep =>
             /\ HeapArray_len(cl') = HeapArray_len(arr)
             /\ SlotVals(cl') = SlotVals(arr)
             /\ arr' = arr
             /\ HeapArray_len(arr) > 0 =>
                   /\ cl'.ptr # arr.ptr
                   /\ cl'.ptr \notin DOMAIN heap
                   /\ cl'.ptr \in DOMAIN heap'
       /\ (SlotWriteStep /\ clState = "live" /\ accRet'.target = "cl") =>
             /\ SlotVals(arr') = SlotVals(arr)
             /\ SlotVals(cl') = [SlotVals(cl) EXCEPT ![accRet'.idx + 1] = accRet'.item.val]
       /\ (SlotWriteStep /\ clState = "live" /\ accRet'.target = "arr") =>
             /\ SlotVals(cl') = SlotVals(cl)
             /\ SlotVals(arr') = [SlotVals(arr) EXCEPT ![accRet'.idx + 1] = accRet'.item.val]]_vars

C15_Witness ==
    /\ arrState = "live"
    /\ clState = "live"
    /\ ~zst
    /\ arr.len = 3
    /\ accRet.op = "index_mut"
    /\ accRet.target = "cl"
    /\ accRet.some
    /\ cl.slots[accRet.idx + 1].val = accRet.item.val
    /\ arr.slots[accRet.idx + 1].val # accRet.item.val
    /\ \A i \in 1..3 : i # accRet.idx + 1 => cl.slots[i].val = arr.slots[i].val

\* C16: clone destructs no element of the source: while the source (built by
\* from_slice from non-zero-sized elements) is alive none of its instances has
\* been destructed, and once the source and the clone have both been dropped
\* every instance has been destructed exactly once.
C16_CloneDestructsNothing ==
    (ctor = "from_slice" /\ ~zst) =>
        /\ arrState = "live" =>
              \A i \in 1..arr.len : DropCount(arr.slots[i].id) = 0
        /\ (arrState = "dropped" /\ clState = "dropped") =>
              \A id \in 1..created : DropCount(id) = 1

\* C19: an array built by new, from_slice, clone or default and dropped
\* without consuming iteration frees exactly the storage it allocated: its
\* block is freed once if it allocated one, and storage that was never
\* allocated is never freed, for zero-sized and non-zero-sized elements.
C19_AllocsMatchDeallocs ==
    /\ wildFrees = 0
    /\ \A p \in DOMAIN heap : heap[p].frees <= 1
    /\ (arrState = "dropped" /\ arr.ptr \in DOMAIN heap) => heap[arr.ptr].frees = 1
    /\ (clState = "dropped" /\ cl.ptr \in DOMAIN heap) => heap[cl.ptr].frees = 1

\* C21: from every reachable state of a ring with backing length C >= 1,
\* read_all terminates: its loop performs at most C - 1 iterations, each one
\* advancing the read cursor by one modulo C, and it returns in the empty
\* state, next_read = (last_write + 1) mod C.
C21_ReadAllTerminates ==
    /\ []((rbState = "draining" /\ C >= 1) => Len(ret.vals) <= C - 1)
    /\ [][(rbState = "draining" /\ C >= 1 /\ rbState' # "live") =>
             /\ rbState' = "draining"
             /\ next_read' = (next_read + 1) % C
             /\ Len(ret'.vals) = Len(ret.vals) + 1]_vars
    /\ [][(rbState = "draining" /\ C >= 1 /\ rbState' = "live") =>
             /\ next_read' = (last_write' + 1) % C
             /\ RB_read(next_read', last_write', data', overflow_checks).some = FALSE
             /\ ~RB_read(next_read', last_write', data', overflow_checks).panicked]_vars
    /\ (rbState = "draining" /\ C >= 1) ~> (rbState = "live")

C21_Witness ==
    /\ rbState = "live"
    /\ C = 3
    /\ ret.op = "read_all"
    /\ Len(ret.vals) = 2
    /\ next_read = (last_write + 1) % 3

====
